---- MODULE Spec2Model ----
(***************************************************************************)
(* Model of src/src/data_analyzer.py: the DataAnalyzer pipeline            *)
(* (load_data, clean_data, generate_visualizations, build_ml_model,        *)
(* fetch_external_data) and the POST /analyze handler of                   *)
(* create_api_server.                                                      *)
(*                                                                         *)
(* A Table (pandas DataFrame) is a record                                  *)
(*   [exists, columns, rows]                                               *)
(* columns is the sequence of column dtypes ("num" or "text") in column    *)
(* order, rows the sequence of [id, cells]; id is the row's index label.   *)
(* processed_data = None is the record NoTable (exists = FALSE).           *)
(*                                                                         *)
(* A cell is a record [k, p, r, d]:                                        *)
(*   k = "num"   the real number p * sqrt(r / d)  (a raw integer v is      *)
(*               p = v, r = 1, d = 1; a z-score is kept exactly)           *)
(*   k = "nan"   the missing / invalid numeric value NaN                   *)
(*   k = "str"   a text value (p is its code)                              *)
(*   k = "none"  a missing text value (None)                               *)
(***************************************************************************)
EXTENDS Integers, Sequences, FiniteSets, TLC

VARIABLES data_source, processed_data, ret, split

vars == <<data_source, processed_data, ret, split>>

(***************************************************************************)
(* Bounds of the enumerated inputs.                                        *)
(***************************************************************************)
\* every table of at most MaxRows rows and 0, 1 or 2 columns is an input
MaxRows == 2
\* the two-column numeric tables of 0 .. MaxSeqRows rows are inputs
MaxSeqRows == 11

(***************************************************************************)
(* Arithmetic helpers.                                                     *)
(***************************************************************************)
Abs(x) == IF x < 0 THEN -x ELSE x

RECURSIVE Gcd(_, _)
Gcd(a, b) == IF b = 0 THEN a ELSE Gcd(b, a % b)

\* sums and gcds of s[lo .. hi], by halves to keep the evaluation shallow
RECURSIVE SumRange(_, _, _)
SumRange(s, lo, hi) ==
  IF hi < lo THEN 0
  ELSE IF lo = hi THEN s[lo]
  ELSE LET mid == (lo + hi) \div 2
       IN SumRange(s, lo, mid) + SumRange(s, mid + 1, hi)

SumSeq(s) == SumRange(s, 1, Len(s))

RECURSIVE GcdRange(_, _, _)
GcdRange(s, lo, hi) ==
  IF hi < lo THEN 0
  ELSE IF lo = hi THEN Abs(s[lo])
  ELSE LET mid == (lo + hi) \div 2
       IN Gcd(GcdRange(s, lo, mid), GcdRange(s, mid + 1, hi))

GcdSeq(s) == GcdRange(s, 1, Len(s))

Range(s) == {s[i] : i \in DOMAIN s}

\* the function f on 1..n as an explicit sequence
AsSeq(f, n) == SubSeq(f, 1, n)

(***************************************************************************)
(* Cells and tables.                                                       *)
(***************************************************************************)
Num(v) == [k |-> "num", p |-> v, r |-> 1, d |-> 1]
NaN == [k |-> "nan", p |-> 0, r |-> 0, d |-> 0]
Str(c) == [k |-> "str", p |-> c, r |-> 0, d |-> 0]
NoneCell == [k |-> "none", p |-> 0, r |-> 0, d |-> 0]

\* pandas isna(): NaN and None are the missing values
IsMissing(c) == c.k \in {"nan", "none"}

NoTable == [exists |-> FALSE, columns |-> <<>>, rows |-> <<>>]

NRows(t) == Len(t.rows)
NCols(t) == Len(t.columns)
Ids(t) == [i \in 1..NRows(t) |-> t.rows[i].id]
Column(t, j) == [i \in 1..NRows(t) |-> t.rows[i].cells[j]]

\* DataFrame built from column vectors; the index is the default RangeIndex
MkTable(dtypes, colvals, nr) ==
  [exists |-> TRUE,
   columns |-> dtypes,
   rows |-> [i \in 1..nr |->
               [id |-> i, cells |-> [j \in 1..Len(dtypes) |-> colvals[j][i]]]]]

(***************************************************************************)
(* Input files.  A source is [suffix, parses, table]: the suffix of the    *)
(* path, whether its content parses, and the Table the parser builds.      *)
(***************************************************************************)
NumCells == {Num(1), Num(2), NaN}
TextCells == {Str(1), NoneCell}

ColumnVectors(nr) ==
  {[dtype |-> "num", vals |-> v] : v \in [1..nr -> NumCells]}
    \cup {[dtype |-> "text", vals |-> v] : v \in [1..nr -> TextCells]}

\* the column counts on both sides of the test len(columns) > 1
ColumnCounts == {0, 1, 2}

SmallTables ==
  UNION {
    {MkTable([j \in 1..nc |-> cs[j].dtype], [j \in 1..nc |-> cs[j].vals], nr) :
        cs \in [1..nc -> ColumnVectors(nr)]} :
    <<nr, nc>> \in (0..MaxRows) \X ColumnCounts}

\* n rows, two numeric columns: a feature i and a 0/1 target
SeqTable(n) ==
  MkTable(<<"num", "num">>,
          <<[i \in 1..n |-> Num(i)], [i \in 1..n |-> Num(i % 2)]>>, n)

\* 5 rows, 3 columns (numeric, numeric, text), one row with a missing value
FiveRowTable ==
  MkTable(<<"num", "text", "num">>,
          <<<<Num(3), Num(1), NaN, Num(4), Num(7)>>,
            <<Str(1), Str(2), Str(1), Str(2), Str(1)>>,
            <<Num(0), Num(1), Num(1), Num(0), Num(1)>>>>, 5)

HundredRowTable == SeqTable(100)

Tables ==
  SmallTables \cup {SeqTable(n) : n \in 0..MaxSeqRows}
    \cup {FiveRowTable, HundredRowTable}

\* read_csv refuses a file without columns (EmptyDataError), so a parsed
\* .csv table has at least one column; the table of a source that is
\* never parsed is immaterial
Sources ==
  {[suffix |-> ".csv", parses |-> TRUE, table |-> t] :
       t \in {u \in Tables : NCols(u) >= 1}}
    \cup {[suffix |-> ".json", parses |-> TRUE, table |-> t] : t \in Tables}
    \cup {[suffix |-> s, parses |-> FALSE, table |-> NoTable] : s \in {".csv", ".json"}}
    \cup {[suffix |-> ".txt", parses |-> b, table |-> NoTable] : b \in BOOLEAN}

(***************************************************************************)
(* Outcome of a call: what the caller observes.                            *)
(***************************************************************************)
NoModel ==
  [built |-> FALSE, input_width |-> 0, layers |-> <<>>,
   optimizer |-> "", loss |-> "", metrics |-> <<>>]

\* what requests.get met: the exception it raised ("none" if it returned a
\* response), the response's status code, and whether the body decodes
NoHttp == [exc |-> "none", status |-> 0, decodes |-> FALSE]

\* kind: "return" or "raise"; value: the returned value's tag or the
\* exception raised (for analyze_data, the response: the message returned
\* or the exception behind the 500); wrote: the call wrote
\* correlation_matrix.png;
\* report: what the call printed; model: the model returned;
\* http: what the call's request met
Outcome(op, kind, value, wrote, report, model, http) ==
  [op |-> op, kind |-> kind, value |-> value, wrote |-> wrote,
   report |-> report, model |-> model, http |-> http]

Returns(op, value) == Outcome(op, "return", value, FALSE, "", NoModel, NoHttp)
Raises(op, exc) == Outcome(op, "raise", exc, FALSE, "", NoModel, NoHttp)

NoSplit == [done |-> FALSE, of |-> <<>>, X_train |-> <<>>, X_test |-> <<>>,
            y_train |-> <<>>, y_test |-> <<>>]

(***************************************************************************)
(* DataAnalyzer.__init__                                                   *)
(***************************************************************************)
Init ==
  /\ data_source \in Sources
  /\ processed_data = NoTable
  /\ ret = Returns("__init__", "None")
  /\ split = NoSplit

(***************************************************************************)
(* DataAnalyzer.load_data                                                  *)
(***************************************************************************)
\* the result of load_data on a source, from the current table:
\* [table, outcome]
LoadResult(src, cur) ==
  IF src.suffix = ".csv"
    THEN IF src.parses
           THEN [table |-> src.table, outcome |-> Returns("load_data", "None")]
           ELSE [table |-> cur, outcome |-> Raises("load_data", "ParserError")]
  ELSE IF src.suffix = ".json"
    THEN IF src.parses
           THEN [table |-> src.table, outcome |-> Returns("load_data", "None")]
           ELSE [table |-> cur, outcome |-> Raises("load_data", "JSONDecodeError")]
  ELSE [table |-> cur, outcome |-> Returns("load_data", "None")]

load_data ==
  /\ processed_data' = LoadResult(data_source, processed_data).table
  /\ ret' = LoadResult(data_source, processed_data).outcome
  /\ UNCHANGED <<data_source, split>>

(***************************************************************************)
(* DataAnalyzer.clean_data                                                 *)
(***************************************************************************)
\* dropna(how='all'): only the rows missing in every column are dropped
DropNa_HowAll(t) ==
  [t EXCEPT !.rows =
     SelectSeq(t.rows, LAMBDA row : \E j \in DOMAIN row.cells : ~IsMissing(row.cells[j]))]

\* DataFrame.dropna(): the rows without a missing value, in order
DropNa(t) ==
  [t EXCEPT !.rows =
     SelectSeq(t.rows, LAMBDA row : \A j \in DOMAIN row.cells : ~IsMissing(row.cells[j]))]

\* (col - col.mean()) / col.std() on a numeric column without missing
\* values.  The cells share the factor sqrt(r/d), which cancels; with
\* P[i] = n*p[i] - sum(p) the z-score is P[i] * sqrt((n-1) / sum(P^2)),
\* kept with the P[i] divided by their gcd.  std() has ddof = 1: it is NaN
\* for one row, and a constant column gives 0/0 = NaN.
Scaled(P, g, n) ==
  LET q == AsSeq([i \in 1..n |-> P[i] \div g], n)
      dd == SumSeq(AsSeq([i \in 1..n |-> q[i] * q[i]], n))
  IN [i \in 1..n |-> [k |-> "num", p |-> q[i], r |-> n - 1, d |-> dd]]

\* a zero spread clamped to the value 0 instead of NaN
Centered_Clamped(ps, S, n) ==
  LET P == AsSeq([i \in 1..n |-> n * ps[i] - S], n)
      g == GcdSeq(P)
  IN IF g = 0 THEN [i \in 1..n |-> Num(0)] ELSE Scaled(P, g, n)

Centered(ps, S, n) ==
  LET P == AsSeq([i \in 1..n |-> n * ps[i] - S], n)
      g == GcdSeq(P)
  IN IF g = 0 THEN [i \in 1..n |-> NaN] ELSE Scaled(P, g, n)

Standardize(col) ==
  LET n == Len(col)
      ps == AsSeq([i \in 1..n |-> col[i].p], n)
  IN AsSeq(Centered(ps, SumSeq(ps), n), n)

\* select_dtypes(include=[np.number]).columns
NumericCols(t) == {j \in 1..NCols(t) : t.columns[j] = "num"}

\* the assignment of the standardized numeric columns
Normalize(t) ==
  LET z == AsSeq([j \in 1..NCols(t) |->
                    IF j \in NumericCols(t)
                      THEN Standardize(Column(t, j))
                      ELSE Column(t, j)], NCols(t))
  IN [t EXCEPT !.rows =
        [i \in 1..NRows(t) |->
           [id |-> t.rows[i].id, cells |-> [j \in 1..NCols(t) |-> z[j][i]]]]]

Clean(t) == IF t.exists THEN Normalize(DropNa(t)) ELSE t

clean_data ==
  /\ processed_data' = Clean(processed_data)
  /\ ret' = Returns("clean_data", "None")
  /\ UNCHANGED <<data_source, split>>

(***************************************************************************)
(* DataAnalyzer.generate_visualizations                                    *)
(***************************************************************************)
\* What DataFrame.corr() and sns.heatmap() can do with a table.  The
\* correlation matrix of a table without columns is empty and heatmap
\* raises on it; with a text column corr() raises or drops the column,
\* depending on the pandas release, so both outcomes are possible.
VizOutcomes(t) ==
  IF NCols(t) = 0 THEN {"ValueError"}
  ELSE IF NumericCols(t) # 1..NCols(t) THEN {"ValueError", "saved"}
  ELSE {"saved"}

\* the stage without its test for a Table
generate_visualizations_Unguarded ==
  /\ \E o \in VizOutcomes(processed_data) :
       IF o = "saved"
         THEN ret' = [Returns("generate_visualizations", "None")
                        EXCEPT !.wrote = TRUE]
         ELSE ret' = Raises("generate_visualizations", o)
  /\ UNCHANGED <<data_source, processed_data, split>>

generate_visualizations ==
  /\ IF processed_data # NoTable
       THEN \E o \in VizOutcomes(processed_data) :
              IF o = "saved"
                THEN ret' = [Returns("generate_visualizations", "None")
                               EXCEPT !.wrote = TRUE]
                ELSE ret' = Raises("generate_visualizations", o)
       ELSE ret' = Returns("generate_visualizations", "None")
  /\ UNCHANGED <<data_source, processed_data, split>>

(***************************************************************************)
(* DataAnalyzer.build_ml_model                                             *)
(***************************************************************************)
random_state == 42

\* the seeds the split can run with: random_state is given, so only it
SplitSeeds == {random_state}

\* test_size = 0.2, as the fraction 1/5
test_size == <<1, 5>>

\* The pseudo-random generator behind RandomState(seed): a counter-based
\* congruential generator stands for the library's generator; all that the
\* split uses of it is that the i-th draw is a function of the seed.
Draw(seed, i) == (75 * (seed + 31 * i) + 74) % 65537

Swap(x, i, j) == [x EXCEPT ![i] = x[j], ![j] = x[i]]

\* RandomState.permutation: Fisher-Yates, positions hi down to lo, each
\* exchanged with a drawn position not above it.  The range is halved and
\* the upper half's result is evaluated first (its length is the length of
\* x) to keep the evaluation shallow; the exchanges are in order hi .. lo.
RECURSIVE Shuffle(_, _, _, _)
Shuffle(x, lo, hi, seed) ==
  IF hi < lo THEN x
  ELSE IF lo = hi THEN Swap(x, hi, 1 + (Draw(seed, hi) % hi))
  ELSE LET mid == (lo + hi) \div 2
           upper == Shuffle(x, mid + 1, hi, seed)
       IN IF Len(upper) = Len(x) THEN Shuffle(upper, lo, mid, seed) ELSE x

\* np.arange(n)
Arange(n) == AsSeq([i \in 1..n |-> i], n)

Permutation(seed, n) == Shuffle(Arange(n), 2, n, seed)

\* n_test = ceil(test_size * n_samples)
NTest(n) == (n * test_size[1] + test_size[2] - 1) \div test_size[2]

\* n_train = n_samples - n_test
NTrain(n) == n - NTest(n)

\* ind_test = permutation[:n_test]
TestIndices(perm, n) == SubSeq(perm, 1, NTest(n))

\* the training slice starting one position early
TrainIndices_Overlap(perm, n) == SubSeq(perm, NTest(n), NTest(n) + NTrain(n))

\* ind_train = permutation[n_test:(n_test + n_train)]
TrainIndices(perm, n) == SubSeq(perm, NTest(n) + 1, NTest(n) + NTrain(n))

\* the target column kept among the features
Features_AllColumns(t, ind) ==
  [i \in 1..Len(ind) |->
     [id |-> t.rows[ind[i]].id, cells |-> t.rows[ind[i]].cells]]

\* X = iloc[:, :-1] taken at the given row positions
Features(t, ind) ==
  [i \in 1..Len(ind) |->
     [id |-> t.rows[ind[i]].id,
      cells |-> SubSeq(t.rows[ind[i]].cells, 1, NCols(t) - 1)]]

\* y = iloc[:, -1] taken at the given row positions
Targets(t, ind) ==
  [i \in 1..Len(ind) |->
     [id |-> t.rows[ind[i]].id, cell |-> t.rows[ind[i]].cells[NCols(t)]]]

\* train_test_split(X, y, test_size=0.2, random_state=seed)
TrainTestSplit(t, seed) ==
  LET n == NRows(t)
      perm == Permutation(seed, n)
  IN [done |-> TRUE, of |-> Ids(t),
      X_train |-> Features(t, TrainIndices(perm, n)),
      X_test |-> Features(t, TestIndices(perm, n)),
      y_train |-> Targets(t, TrainIndices(perm, n)),
      y_test |-> Targets(t, TestIndices(perm, n))]

\* the guard of build_ml_model
HasFeatures(t) == t # NoTable /\ NCols(t) > 1

\* tf.keras.Sequential([...]) and model.compile(...)
Model(width) ==
  [built |-> TRUE, input_width |-> width,
   layers |-> <<[units |-> 64, activation |-> "relu"],
                [units |-> 32, activation |-> "relu"],
                [units |-> 1, activation |-> "sigmoid"]>>,
   optimizer |-> "adam", loss |-> "binary_crossentropy",
   metrics |-> <<"accuracy">>]

build_ml_model ==
  /\ IF HasFeatures(processed_data)
       THEN IF NTrain(NRows(processed_data)) = 0
              \* train_test_split: the resulting train set will be empty
              THEN /\ ret' = Raises("build_ml_model", "ValueError")
                   /\ split' = split
              ELSE \E seed \in SplitSeeds :
                     /\ split' = TrainTestSplit(processed_data, seed)
                     \* input_shape = (X_train.shape[1],)
                     /\ ret' = [Returns("build_ml_model", "model")
                                  EXCEPT !.model = Model(Len(split'.X_train[1].cells))]
       ELSE /\ ret' = Returns("build_ml_model", "None")
            /\ split' = split
  /\ UNCHANGED <<data_source, processed_data>>

(***************************************************************************)
(* DataAnalyzer.fetch_external_data                                        *)
(***************************************************************************)
StatusCodes == {200, 204, 299, 404}

\* what requests.get(api_url, timeout=30) can meet
HttpResults ==
  {[exc |-> e, status |-> 0, decodes |-> FALSE] :
      e \in {"ConnectionError", "Timeout"}}
    \cup {[exc |-> "none", status |-> c, decodes |-> b] :
            c \in StatusCodes, b \in BOOLEAN}

\* any status taken for a success
IsSuccess_AnyStatus(status) == status >= 200

\* the status test of fetch_external_data
IsSuccess(status) == status = 200

\* The outcomes of fetch_external_data.  response.json() on a body that
\* does not decode raises requests.JSONDecodeError, a RequestException, in
\* current releases of requests and a plain ValueError in older ones.
FetchOutcomes(h) ==
  LET op == "fetch_external_data"
      failed == [Returns(op, "None") EXCEPT !.report = "Error fetching data", !.http = h]
  IN IF h.exc # "none" THEN {failed}
     ELSE IF IsSuccess(h.status)
       THEN IF h.decodes
              THEN {[Returns(op, "payload") EXCEPT !.http = h]}
              ELSE {failed, [Raises(op, "ValueError") EXCEPT !.http = h]}
     ELSE {[Returns(op, "None") EXCEPT !.http = h]}

\* the fetched payload appended to the Table as a column
fetch_external_data_Merging ==
  /\ \E h \in HttpResults : ret' \in FetchOutcomes(h)
  /\ processed_data' =
       IF ret'.value = "payload" /\ processed_data # NoTable
         THEN [processed_data EXCEPT
                 !.columns = Append(@, "text"),
                 !.rows = [i \in 1..NRows(processed_data) |->
                             [id |-> processed_data.rows[i].id,
                              cells |-> Append(processed_data.rows[i].cells, Str(9))]]]
         ELSE processed_data
  /\ UNCHANGED <<data_source, split>>

fetch_external_data ==
  /\ \E h \in HttpResults : ret' \in FetchOutcomes(h)
  /\ UNCHANGED <<data_source, processed_data, split>>

(***************************************************************************)
(* create_api_server: POST /analyze.  The handler builds its own           *)
(* DataAnalyzer on data_path; the requests of a behaviour name the         *)
(* behaviour's source file.                                                *)
(***************************************************************************)
\* the handler's return value; an exception leaving the handler is the
\* framework's 500 response
Completed == "Analysis completed successfully"

analyze_data ==
  LET loaded == LoadResult(data_source, NoTable)
      cleaned == Clean(loaded.table)
  IN /\ IF loaded.outcome.kind = "raise"
          THEN ret' = Raises("analyze_data", loaded.outcome.value)
          ELSE IF cleaned # NoTable
            THEN \E o \in VizOutcomes(cleaned) :
                   IF o = "saved"
                     THEN ret' = [Returns("analyze_data", Completed)
                                    EXCEPT !.wrote = TRUE]
                     ELSE ret' = Raises("analyze_data", o)
          ELSE ret' = Returns("analyze_data", Completed)
     /\ UNCHANGED <<data_source, processed_data, split>>

Next ==
  \/ load_data
  \/ clean_data
  \/ generate_visualizations
  \/ build_ml_model
  \/ fetch_external_data
  \/ analyze_data

Spec == Init /\ [][Next]_vars

(***************************************************************************)
(* Properties.                                                             *)
(***************************************************************************)
StageOps == {"clean_data", "generate_visualizations", "build_ml_model"}

\* a source load_data cannot turn into a Table
BadSource(src) == src.suffix \notin {".csv", ".json"} \/ ~src.parses

IdSet(rs) == {rs[i].id : i \in 1..Len(rs)}
IdSeq(rs) == [i \in 1..Len(rs) |-> rs[i].id]

\* the positions of the rows of t without a missing value
Complete(t) ==
  {i \in 1..NRows(t) : \A j \in 1..NCols(t) : ~IsMissing(t.rows[i].cells[j])}

\* the position in t of the row with index label id
PosOf(t, id) == CHOOSE i \in 1..NRows(t) : t.rows[i].id = id

\* C1 (as stated): for a source with an unsupported suffix or with content
\* that does not parse, load_data ends in an error and processed_data stays
\* absent, and POST /analyze does not return the completion message.
C1_Original ==
  /\ (ret.op = "load_data" /\ BadSource(data_source))
       => (ret.kind = "raise" /\ processed_data = NoTable)
  /\ (ret.op = "analyze_data" /\ BadSource(data_source))
       => (ret.kind = "raise" /\ ret.value # Completed)

\* C2: while no Table exists, clean_data, generate_visualizations and
\* build_ml_model change nothing: processed_data stays absent, no artifact
\* is written, nothing is returned (no model) and no split is made.
C2_NoTableNoOp ==
  [][(processed_data = NoTable /\ ret'.op \in StageOps)
       => /\ processed_data' = NoTable
          /\ ret'.kind = "return"
          /\ ret'.value = "None"
          /\ ~ret'.wrote
          /\ ret'.model = NoModel
          /\ split' = split]_vars

C2_Witness ==
  /\ processed_data = NoTable
  /\ data_source.suffix = ".txt"
  /\ ret.op = "build_ml_model"
  /\ ret.value = "None"

\* C3: when the request raises a network exception or the response status
\* is not 2xx, fetch_external_data returns None (no payload) and returns
\* normally.
C3_FetchFailureIsNone ==
  (ret.op = "fetch_external_data"
     /\ (ret.http.exc # "none" \/ ret.http.status \notin 200..299))
    => (ret.kind = "return" /\ ret.value = "None")

C3_Witness ==
  /\ ret.op = "fetch_external_data"
  /\ ret.http.exc = "Timeout"
  /\ ret.kind = "return"
  /\ ret.value = "None"

\* C4 (as stated): for every response with a status in 200..299 whose body
\* decodes, fetch_external_data returns the decoded payload.
C4_Original ==
  (ret.op = "fetch_external_data" /\ ret.http.exc = "none"
     /\ ret.http.status \in 200..299 /\ ret.http.decodes)
    => (ret.kind = "return" /\ ret.value = "payload")

\* the split just made is a partition of the rows of t into aligned
\* feature and target subsets, the evaluation subset of k rows
IsPartition(sp, t, k) ==
  /\ sp.done
  /\ sp.of = Ids(t)
  /\ IdSet(sp.X_train) \cap IdSet(sp.X_test) = {}
  /\ IdSet(sp.X_train) \cup IdSet(sp.X_test) = Range(Ids(t))
  /\ Len(sp.X_train) + Len(sp.X_test) = NRows(t)
  /\ Len(sp.X_test) = k
  /\ IdSeq(sp.y_train) = IdSeq(sp.X_train)
  /\ IdSeq(sp.y_test) = IdSeq(sp.X_test)
  /\ \A part \in {<<sp.X_train, sp.y_train>>, <<sp.X_test, sp.y_test>>} :
       \A i \in 1..Len(part[1]) :
         LET row == t.rows[PosOf(t, part[1][i].id)]
         IN /\ part[1][i].cells = SubSeq(row.cells, 1, NCols(t) - 1)
            /\ part[2][i].cell = row.cells[NCols(t)]

C6_Original ==
  (ret.op = "build_ml_model" /\ processed_data # NoTable
     /\ NCols(processed_data) < 2)
    => /\ ret.model = NoModel
       /\ (ret.kind = "raise" \/ ret.report # "")

\* C7: the rows left by clean_data are exactly the rows of the Table without
\* a missing value in any column, in their original order; a Table without
\* missing values keeps its row count.
C7_RowFilter ==
  [][(ret'.op = "clean_data" /\ processed_data # NoTable)
       => /\ NRows(processed_data') = Cardinality(Complete(processed_data))
          /\ Range(Ids(processed_data'))
               = {processed_data.rows[i].id : i \in Complete(processed_data)}
          /\ \A a \in 1..(NRows(processed_data') - 1) :
               PosOf(processed_data, processed_data'.rows[a].id)
                 < PosOf(processed_data, processed_data'.rows[a + 1].id)
          /\ (Complete(processed_data) = 1..NRows(processed_data)
                => NRows(processed_data') = NRows(processed_data))]_vars

C7_Witness ==
  /\ ret.op = "clean_data"
  /\ data_source.table = FiveRowTable
  /\ Ids(processed_data) = <<1, 2, 4, 5>>

\* C8: a model returned by build_ml_model has input width = number of
\* columns - 1 (>= 1), layers 64 relu, 32 relu, 1 sigmoid, loss binary
\* cross-entropy, optimizer Adam and metric accuracy.
C8_ModelShape ==
  ret.model.built
    => /\ ret.op = "build_ml_model"
       /\ ret.model.input_width = NCols(processed_data) - 1
       /\ ret.model.input_width >= 1
       /\ Len(ret.model.layers) = 3
       /\ ret.model.layers[1] = [units |-> 64, activation |-> "relu"]
       /\ ret.model.layers[2] = [units |-> 32, activation |-> "relu"]
       /\ ret.model.layers[3] = [units |-> 1, activation |-> "sigmoid"]
       /\ ret.model.loss = "binary_crossentropy"
       /\ ret.model.optimizer = "adam"
       /\ ret.model.metrics = <<"accuracy">>

C8_Witness ==
  /\ ret.model.built
  /\ NCols(processed_data) = 3
  /\ ret.model.input_width = 2

\* C9: once the Table exists, generate_visualizations, build_ml_model and
\* fetch_external_data leave it unchanged (rows, columns, order, values);
\* a fetched payload is not merged into it.
C9_StagesKeepTable ==
  [][(processed_data # NoTable
        /\ ret'.op \in {"generate_visualizations", "build_ml_model",
                        "fetch_external_data"})
       => processed_data' = processed_data]_vars

C9_Witness ==
  /\ processed_data # NoTable
  /\ NRows(processed_data) >= 1
  /\ ret.op = "fetch_external_data"
  /\ ret.value = "payload"

====
